---- MODULE Spec2Model ----
(***************************************************************************)
(* Model of the per-book annotation store of reader3 (annotations.py) and  *)
(* of the HTTP handlers in server.py that drive it, and of the reader in   *)
(* server.py: the book cache, the reading progress and its migration, and  *)
(* the chapter pages.                                                      *)
(*                                                                         *)
(* Variables.  disk holds every book's annotations.json, history every     *)
(* book's chat_history.json; uuid_count and clock count the calls of the   *)
(* two default factories; last is the request served last, before the disk *)
(* as that request found it; deleted collects the ids whose DELETE was     *)
(* answered 200; inflight holds, for each request served at the same time *)
(* as another, how far its handler has come.  library holds every folder's *)
(* book.pkl, cache the entries of load_book_cached from the least to the   *)
(* most recently used, progress every book's progress.json, old_progress   *)
(* the global reading_progress.json and its .bak, and page the answer of   *)
(* the reader request served last.                                         *)
(*                                                                         *)
(* Representation.  An optional value is a sequence of length at most one: *)
(* None is <<>> and a present value v is <<v>>.  A JSON object (a request  *)
(* body, or an element of the array in annotations.json) is a function     *)
(* from the keys it carries to their values, so an absent key, a key that  *)
(* is null and a key with a value are three different things.  A validated *)
(* pydantic object is a record that has every field of its class.          *)
(***************************************************************************)
EXTENDS Integers, Sequences, FiniteSets, TLC

VARIABLES disk, uuid_count, clock, last, before, history, deleted, inflight,
          library, cache, progress, old_progress, page

\* what the annotation and chat-history handlers never touch: the books,
\* the cache of loaded books and the reading progress
reader == <<library, cache, progress, old_progress, page>>

vars == <<disk, uuid_count, clock, last, before, history, deleted, inflight,
          reader>>

\* what an annotation handler that runs alone never touches: the chat
\* history files, the record of ids deleted so far, the requests that are
\* served at the same time and the reader's files
aux == <<history, deleted, inflight, reader>>

(* ------------------------------ bounds --------------------------------- *)

\* largest number of records held by the whole store (all books together)
MaxAnn == 2
\* number of ids that uuid.uuid4() hands out in one behaviour
MaxUuid == 1
\* number of readings of datetime.utcnow() in one behaviour
MaxClock == 1
\* longest chat_messages list a chat-append is explored on
MaxChat == 2
\* longest chat history a message is added to
MaxHistory == 2

(* ------------------------------ domains -------------------------------- *)

Books == {"b1", "b2"}

\* the books that requests are addressed to
ReqBooks == {"b1"}

None == <<>>

Some(v) == <<v>>

\* successive results of uuid.uuid4(): pairwise distinct, and distinct from
\* every id a client makes up itself
UuidPool == <<"u1", "u2", "u3", "u4">>

ClientIds == {"c1"}

\* created_at values a client makes up itself; the clock reads 1, 2, ...
ClientTimes == {0}

PathIds == ClientIds \cup {UuidPool[i] : i \in 1..MaxUuid}

\* a Literal that lets one more value through
Types_with_bogus == {"highlight", "note", "chat_thread", "bogus"}

\* Literal["highlight", "note", "chat_thread"]
Types == {"highlight", "note", "chat_thread"}

R1 == <<1, 5>>

R2 == <<2, 6>>

Messages == {[role |-> "user", content |-> "Explain"]}

(* --------------------------- annotations.py ---------------------------- *)

Get(data, key) == IF key \in DOMAIN data THEN data[key] ELSE None

\* a Python value is falsy when it is None or an empty list
Truthy(opt) == opt # None /\ opt[1] # <<>>

\* the validator letting rect overwrite whatever rects came with it
migrate_rect_overwrite(data) ==
    IF "rect" \in DOMAIN data /\ Truthy(data["rect"])
    THEN [k \in DOMAIN data \cup {"rects"} |->
             IF k = "rects" THEN Some(<<data["rect"][1]>>) ELSE data[k]]
    ELSE data

migrate_rect_to_rects(data) ==
    IF "rect" \in DOMAIN data /\ Truthy(data["rect"]) /\ "rects" \notin DOMAIN data
    THEN [k \in DOMAIN data \cup {"rects"} |->
             IF k = "rects" THEN Some(<<data["rect"][1]>>) ELSE data[k]]
    ELSE data

\* AnnotationTarget(**data): None when validation fails
AnnotationTarget(data) ==
    LET d == migrate_rect_to_rects(data) IN
    IF "chapter_index" \notin DOMAIN d
    THEN None
    ELSE Some([chapter_index |-> d["chapter_index"],
               cfi           |-> Get(d, "cfi"),
               quote         |-> Get(d, "quote"),
               page_num      |-> Get(d, "page_num"),
               rect          |-> Get(d, "rect"),
               rects         |-> Get(d, "rects")])

\* AnnotationContent(**data): every field is optional
AnnotationContent(data) ==
    [text          |-> Get(data, "text"),
     color         |-> Get(data, "color"),
     chat_messages |-> Get(data, "chat_messages")]

\* Annotation(**item): None when validation fails; new_id and now are what
\* the two default factories return when they are called
Annotation(item, new_id, now) ==
    IF \/ "type" \notin DOMAIN item
       \/ "target" \notin DOMAIN item
       \/ "content" \notin DOMAIN item
    THEN None
    ELSE LET target == AnnotationTarget(item["target"]) IN
         IF item["type"] \notin Types \/ target = None
         THEN None
         ELSE Some([id         |-> IF "id" \in DOMAIN item THEN item["id"] ELSE new_id,
                    created_at |-> IF "created_at" \in DOMAIN item
                                   THEN item["created_at"] ELSE now,
                    type       |-> item["type"],
                    target     |-> target[1],
                    content    |-> AnnotationContent(item["content"])])

\* model_dump as it would be with exclude_none=True: a field that is None is
\* left out instead of written as null
model_dump_exclude_none(a) ==
    [k \in {"id", "created_at", "type", "target", "content"} |->
       CASE k = "id"         -> a.id
         [] k = "created_at" -> a.created_at
         [] k = "type"       -> a.type
         [] k = "target"     ->
              [f \in {"chapter_index"} \cup
                     {g \in {"cfi", "quote", "page_num", "rect", "rects"} :
                        a.target[g] # None} |-> a.target[f]]
         [] k = "content"    ->
              [f \in {g \in {"text", "color", "chat_messages"} :
                        a.content[g] # None} |-> a.content[f]]]

\* a.model_dump(mode='json'): a dict that carries every field, None as null
model_dump(a) ==
    [k \in {"id", "created_at", "type", "target", "content"} |->
       CASE k = "id"         -> a.id
         [] k = "created_at" -> a.created_at
         [] k = "type"       -> a.type
         [] k = "target"     ->
              [f \in {"chapter_index", "cfi", "quote", "page_num", "rect", "rects"} |->
                 a.target[f]]
         [] k = "content"    ->
              [f \in {"text", "color", "chat_messages"} |-> a.content[f]]]

(* ------------------------------ the disk ------------------------------- *)

\* the state of books/<book_id>/annotations.json: dir says whether the
\* book's directory exists; kind is "absent", "malformed" (not parseable as
\* JSON) or "array" (a JSON array whose elements are items)
NoDir == [dir |-> FALSE, kind |-> "absent", items |-> <<>>]

NoFile == [dir |-> TRUE, kind |-> "absent", items |-> <<>>]

Malformed == [dir |-> TRUE, kind |-> "malformed", items |-> <<>>]

ArrayFile(items) == [dir |-> TRUE, kind |-> "array", items |-> items]

RECURSIVE ParseAll(_)
\* [Annotation(**item) for item in raw_data]: None as soon as one item
\* raises.  Every item on disk carries id and created_at, so the default
\* factories are never consulted here.
ParseAll(items) ==
    IF items = <<>> THEN Some(<<>>)
    ELSE LET head == Annotation(items[1], "unused", 0)
             rest == ParseAll(Tail(items)) IN
         IF head = None \/ rest = None THEN None
         ELSE Some(<<head[1]>> \o rest[1])

\* load_annotations skipping the records that fail validation
load_annotations_valid_subset(file) ==
    IF file.kind = "absent" THEN <<>>
    ELSE IF file.kind = "malformed" THEN <<>>
    ELSE LET ok == SelectSeq(file.items,
                             LAMBDA item : Annotation(item, "unused", 0) # None) IN
         [i \in 1..Len(ok) |-> Annotation(ok[i], "unused", 0)[1]]

load_annotations(file) ==
    IF file.kind = "absent" THEN <<>>
    ELSE IF file.kind = "malformed" THEN <<>>
    ELSE LET parsed == ParseAll(file.items) IN
         IF parsed = None THEN <<>> ELSE parsed[1]

DumpAll(annotations) == [i \in 1..Len(annotations) |-> model_dump(annotations[i])]

\* open(path, "w") and json.dump: io is what the filesystem does
\*   "ok"      the file now holds the array
\*   "eopen"   open() raises, the file is as it was
\*   "ewrite"  the write raises after open() truncated the file
WriteFile(file, annotations, io) ==
    CASE io = "ok"     -> ArrayFile(DumpAll(annotations))
      [] io = "eopen"  -> file
      [] io = "ewrite" -> Malformed

\* Every store operation yields the new file state, whether it raised, the
\* value it returned and whether it opened the file for writing.
Outcome(file, raised, ret, wrote) ==
    [file |-> file, raised |-> raised, ret |-> ret, wrote |-> wrote]

\* save_annotation_to_disk putting the new record in front
save_annotation_prepend(file, new_annotation, io) ==
    LET annotations == <<new_annotation>> \o load_annotations(file) IN
    IF io = "emkdir"
    THEN Outcome(file, TRUE, FALSE, FALSE)
    ELSE LET made == [file EXCEPT !.dir = TRUE] IN
         Outcome(WriteFile(made, annotations, io), io # "ok", FALSE, TRUE)

\* save_annotation_to_disk storing the record under an id of its own
save_annotation_own_id(file, new_annotation, io) ==
    LET annotations == Append(load_annotations(file),
                              [new_annotation EXCEPT !.id = UuidPool[Len(UuidPool)]]) IN
    IF io = "emkdir"
    THEN Outcome(file, TRUE, FALSE, FALSE)
    ELSE LET made == [file EXCEPT !.dir = TRUE] IN
         Outcome(WriteFile(made, annotations, io), io # "ok", FALSE, TRUE)

\* save_annotation_to_disk adding the new record to the array as it stands
\* in the file, without validating what is there
save_annotation_append_raw(file, new_annotation, io) ==
    IF io = "emkdir"
    THEN Outcome(file, TRUE, FALSE, FALSE)
    ELSE IF io = "ok"
    THEN Outcome(ArrayFile(file.items \o <<model_dump(new_annotation)>>),
                 FALSE, FALSE, TRUE)
    ELSE Outcome(WriteFile([file EXCEPT !.dir = TRUE], <<>>, io), TRUE, FALSE, TRUE)

save_annotation_to_disk(file, new_annotation, io) ==
    LET annotations == Append(load_annotations(file), new_annotation) IN
    IF io = "emkdir"
    THEN Outcome(file, TRUE, FALSE, FALSE)
    ELSE LET made == [file EXCEPT !.dir = TRUE] IN
         Outcome(WriteFile(made, annotations, io), io # "ok", FALSE, TRUE)

\* delete_annotation_from_disk with the filter's comparison inverted
delete_annotation_keep_match(file, annotation_id, io) ==
    LET annotations == load_annotations(file)
        filtered    == SelectSeq(annotations, LAMBDA a : a.id = annotation_id) IN
    IF Len(filtered) = Len(annotations)
    THEN Outcome(file, FALSE, FALSE, FALSE)
    ELSE Outcome(WriteFile(file, filtered, io), io # "ok", io = "ok", TRUE)

\* delete_annotation_from_disk without the early return for an unknown id
delete_annotation_always_write(file, annotation_id, io) ==
    LET annotations == load_annotations(file)
        filtered    == SelectSeq(annotations, LAMBDA a : a.id # annotation_id) IN
    Outcome(WriteFile(file, filtered, io), io # "ok", io = "ok", TRUE)

\* delete_annotation_from_disk making the book directory first, as
\* save_annotation_to_disk does
delete_annotation_makedirs(file, annotation_id, io) ==
    LET annotations == load_annotations(file)
        filtered    == SelectSeq(annotations, LAMBDA a : a.id # annotation_id)
        made        == [file EXCEPT !.dir = TRUE] IN
    IF Len(filtered) = Len(annotations)
    THEN Outcome(made, FALSE, FALSE, FALSE)
    ELSE Outcome(WriteFile(made, filtered, io), io # "ok", io = "ok", TRUE)

delete_annotation_from_disk(file, annotation_id, io) ==
    LET annotations == load_annotations(file)
        filtered    == SelectSeq(annotations, LAMBDA a : a.id # annotation_id) IN
    IF Len(filtered) = Len(annotations)
    THEN Outcome(file, FALSE, FALSE, FALSE)
    ELSE Outcome(WriteFile(file, filtered, io), io # "ok", io = "ok", TRUE)

\* the search loop leaving its loop variable on the last record when no id
\* matches
FirstIndex_last_on_miss(annotations, id) ==
    IF \E i \in 1..Len(annotations) : annotations[i].id = id
    THEN CHOOSE i \in 1..Len(annotations) :
            /\ annotations[i].id = id
            /\ \A j \in 1..(i - 1) : annotations[j].id # id
    ELSE Len(annotations)

\* the search running to the end of the list, so that the last record with
\* the id is the one it keeps
FirstIndex_last_match(annotations, id) ==
    IF \E i \in 1..Len(annotations) : annotations[i].id = id
    THEN CHOOSE i \in 1..Len(annotations) :
            /\ annotations[i].id = id
            /\ \A j \in (i + 1)..Len(annotations) : annotations[j].id # id
    ELSE 0

\* index of the first record with the given id, 0 when there is none
FirstIndex(annotations, id) ==
    IF \E i \in 1..Len(annotations) : annotations[i].id = id
    THEN CHOOSE i \in 1..Len(annotations) :
            /\ annotations[i].id = id
            /\ \A j \in 1..(i - 1) : annotations[j].id # id
    ELSE 0

\* update_annotation_in_disk replacing the content alone
update_annotation_content_only(file, updated_annotation, io) ==
    LET annotations == load_annotations(file)
        i           == FirstIndex(annotations, updated_annotation.id) IN
    IF i = 0
    THEN Outcome(file, FALSE, FALSE, FALSE)
    ELSE Outcome(WriteFile(file,
                           [annotations EXCEPT ![i].content = updated_annotation.content],
                           io),
                 io # "ok", io = "ok", TRUE)

\* update_annotation_in_disk adding the record when its id is unknown
update_annotation_upsert(file, updated_annotation, io) ==
    LET annotations == load_annotations(file)
        i           == FirstIndex(annotations, updated_annotation.id) IN
    IF i = 0
    THEN Outcome(WriteFile(file, Append(annotations, updated_annotation), io),
                 io # "ok", io = "ok", TRUE)
    ELSE Outcome(WriteFile(file, [annotations EXCEPT ![i] = updated_annotation], io),
                 io # "ok", io = "ok", TRUE)

\* update_annotation_in_disk catching the write error as load_annotations
\* catches a read error
update_annotation_swallow(file, updated_annotation, io) ==
    LET annotations == load_annotations(file)
        i           == FirstIndex(annotations, updated_annotation.id) IN
    IF i = 0
    THEN Outcome(file, FALSE, FALSE, FALSE)
    ELSE Outcome(WriteFile(file, [annotations EXCEPT ![i] = updated_annotation], io),
                 FALSE, io = "ok", TRUE)

update_annotation_in_disk(file, updated_annotation, io) ==
    LET annotations == load_annotations(file)
        i           == FirstIndex(annotations, updated_annotation.id) IN
    IF i = 0
    THEN Outcome(file, FALSE, FALSE, FALSE)
    ELSE Outcome(WriteFile(file, [annotations EXCEPT ![i] = updated_annotation], io),
                 io # "ok", io = "ok", TRUE)

(* --------------------------- request inputs ---------------------------- *)

T0 == [chapter_index |-> 0, quote |-> Some("Test Quote")]

\* a legacy target: rect is given and there is no rects key
TL == [chapter_index |-> 0, page_num |-> Some(5), rect |-> Some(R1)]

\* rect is given and rects is present as null
TN == [chapter_index |-> 0, rect |-> Some(R1), rects |-> None]

BaseBodies ==
    { [type |-> "highlight", target |-> T0,
       content |-> [text |-> Some("Original text"), color |-> Some("yellow")]],
      [type |-> "note", target |-> TN,
       content |-> [text |-> Some("Edited"), color |-> Some("blue")]],
      [type |-> "bogus", target |-> T0,
       content |-> [text |-> None, color |-> None]] }

\* the n-th result of uuid.uuid4()
Uuid(n) == UuidPool[n]

\* ids and timestamps a client can put into a body: its own, or ones the
\* server has handed out before
KnownIds == ClientIds \cup {Uuid(i) : i \in 1..uuid_count}

KnownTimes == ClientTimes \cup (1..clock)

WithKey(base, key, opt) ==
    IF opt = None THEN base
    ELSE [k \in DOMAIN base \cup {key} |-> IF k = key THEN opt[1] ELSE base[k]]

\* request bodies of POST and PUT: a base body with or without id and
\* created_at
Bodies ==
    { WithKey(WithKey(base, "id", i), "created_at", c) :
        base \in BaseBodies,
        i \in {None} \cup {Some(x) : x \in KnownIds},
        c \in {None} \cup {Some(t) : t \in ClientTimes} }

\* annotations.json as an older release left it (no rects key), and a file
\* with a record that fails validation
LegacyItem ==
    [id |-> "c1", created_at |-> 0, type |-> "note", target |-> TL,
     content |-> [text |-> Some("Edited"), color |-> Some("blue"),
                  chat_messages |-> None]]

BadItem == [LegacyItem EXCEPT !["type"] = "bogus"]

InitFiles ==
    { NoDir, NoFile, Malformed, ArrayFile(<<>>), ArrayFile(<<LegacyItem>>),
      ArrayFile(<<LegacyItem, BadItem>>) }

RECURSIVE SumOver(_, _)
SumOver(d, S) ==
    IF S = {} THEN 0
    ELSE LET b == CHOOSE x \in S : TRUE IN
         Len(d[b].items) + SumOver(d, S \ {b})

\* number of records held by the whole store
Stored(d) == SumOver(d, Books)

(* ------------------------------ server.py ------------------------------ *)

\* the request served last and its response: io is what the file system did
\* to the write, resp the list a GET answered with; before is the disk as
\* that request found it
Log(op, book, id, body, ann, msg, status, resp_id, wrote, io, resp) ==
    [op |-> op, book |-> book, id |-> id, body |-> body, ann |-> ann,
     msg |-> msg, status |-> status, resp_id |-> resp_id, wrote |-> wrote,
     io |-> io, resp |-> resp]

NoBody == [type |-> "none"]

\* books/<book_id>/chat_history.json does not exist
NoHistory == [kind |-> "absent", items |-> <<>>]

\* the folders under books/: those of the books and others that the
\* library view scans, in the order os.listdir gives them
FolderList ==
    <<"b1", "b2", "f3", "f4", "f5", "f6", "f7", "f8", "f9", "f10", "f11">>

Folders == {FolderList[i] : i \in 1..Len(FolderList)}

\* books/<folder>/book.pkl does not exist
NoPickle == [kind |-> "absent"]

\* progress.json, or reading_progress.json, does not exist
NoProgress == [kind |-> "absent"]

\* no reader request has been served
NoPage == [op |-> "start"]

\* the requests that are served at the same time
Readers == {"r1", "r2"}

\* no request has come in for the reader
Idle == [stage |-> "idle"]

Init ==
    /\ disk \in [Books -> InitFiles]
    /\ \A b \in Books \ ReqBooks : disk[b] = NoDir
    /\ Stored(disk) <= MaxAnn
    /\ uuid_count = 0
    /\ clock = 0
    /\ before = disk
    /\ last = Log("start", "b1", "-", NoBody, None, None, 0, None, FALSE, "ok",
                  <<>>)
    /\ history = [b \in Books |-> NoHistory]
    /\ deleted = {}
    /\ inflight = [t \in Readers |-> Idle]
    /\ library = [f \in Folders |-> NoPickle]
    /\ cache = <<>>
    /\ progress = [b \in Books |-> NoProgress]
    /\ old_progress = [file |-> NoProgress, bak |-> NoProgress]
    /\ page = NoPage

\* the default factories run for the fields the body leaves out
UsesUuid(body) == "id" \notin DOMAIN body

UsesClock(body) == "created_at" \notin DOMAIN body

Factories(body) ==
    /\ UsesUuid(body) => uuid_count < MaxUuid
    /\ UsesClock(body) => clock < MaxClock
    /\ uuid_count' = IF UsesUuid(body) THEN uuid_count + 1 ELSE uuid_count
    /\ clock' = IF UsesClock(body) THEN clock + 1 ELSE clock

\* the request body as FastAPI hands it to the handler
Validated(body) == Annotation(body, Uuid(uuid_count + 1), clock + 1)

\* a path that leaves the book out, so that all books share one file
annotations_path_shared(book_id) == "b1"

\* os.path.join(books_dir, book_id, "annotations.json"): the file that the
\* store operations of a book read and write
_get_annotations_path(book_id) == book_id

\* GET /api/annotations/{book_id}
get_annotations(book_id) ==
    LET path == _get_annotations_path(book_id) IN
    /\ last' = Log("GET", book_id, "-", NoBody, None, None, 200, None, FALSE,
                   "ok", load_annotations(disk[path]))
    /\ UNCHANGED <<disk, uuid_count, clock>>
    /\ before' = disk

\* POST /api/annotations/{book_id}
create_annotation(book_id, body, io) ==
    LET v    == Validated(body)
        path == _get_annotations_path(book_id) IN
    /\ Factories(body)
    /\ IF v = None
       THEN /\ io = "ok"
            /\ last' = Log("POST", book_id, "-", body, None, None, 422, None,
                           FALSE, "ok", <<>>)
            /\ UNCHANGED disk
       ELSE LET r == save_annotation_to_disk(disk[path], v[1], io) IN
            /\ io = "emkdir" => ~disk[path].dir
            /\ Stored(disk) - Len(disk[path].items)
                 + Len(load_annotations(disk[path])) < MaxAnn
            /\ disk' = [disk EXCEPT ![path] = r.file]
            /\ last' = Log("POST", book_id, "-", body, v, None,
                           IF r.raised THEN 500 ELSE 200,
                           IF r.raised THEN None ELSE Some(v[1].id), r.wrote, io, <<>>)
    /\ before' = disk

\* DELETE /api/annotations/{book_id}/{annotation_id}
delete_annotation(book_id, annotation_id, io) ==
    LET path == _get_annotations_path(book_id)
        r    == delete_annotation_from_disk(disk[path], annotation_id, io) IN
    /\ ~r.wrote => io = "ok"
    /\ disk' = [disk EXCEPT ![path] = r.file]
    /\ last' = Log("DELETE", book_id, annotation_id, NoBody, None, None,
                   IF r.raised THEN 500 ELSE IF ~r.ret THEN 404 ELSE 200,
                   None, r.wrote, io, <<>>)
    /\ UNCHANGED <<uuid_count, clock>>
    /\ before' = disk

\* update_annotation without its check
id_mismatch_unchecked(annotation, annotation_id) == FALSE

\* the comparison that opens update_annotation
id_mismatch(annotation, annotation_id) == annotation.id # annotation_id

\* PUT /api/annotations/{book_id}/{annotation_id}
update_annotation(book_id, annotation_id, body, io) ==
    LET v    == Validated(body)
        path == _get_annotations_path(book_id) IN
    /\ Factories(body)
    /\ IF v = None
       THEN /\ io = "ok"
            /\ last' = Log("PUT", book_id, annotation_id, body, None, None, 422,
                           None, FALSE, "ok", <<>>)
            /\ UNCHANGED disk
       ELSE IF id_mismatch(v[1], annotation_id)
       THEN /\ io = "ok"
            /\ last' = Log("PUT", book_id, annotation_id, body, v, None, 400,
                           None, FALSE, "ok", <<>>)
            /\ UNCHANGED disk
       ELSE LET r == update_annotation_in_disk(disk[path], v[1], io) IN
            /\ ~r.wrote => io = "ok"
            /\ disk' = [disk EXCEPT ![path] = r.file]
            /\ last' = Log("PUT", book_id, annotation_id, body, v, None,
                           IF r.raised THEN 500 ELSE IF ~r.ret THEN 404 ELSE 200,
                           None, r.wrote, io, <<>>)
    /\ before' = disk

\* the handler promoting every type
WithChat_promote_all(a, message) ==
    LET msgs == IF a.content.chat_messages = None
                THEN <<>> ELSE a.content.chat_messages[1] IN
    [a EXCEPT !.content.chat_messages = Some(Append(msgs, message)),
              !.type = "chat_thread"]

\* the handler building a fresh content that holds the messages alone
WithChat_fresh_content(a, message) ==
    LET msgs == IF a.content.chat_messages = None
                THEN <<>> ELSE a.content.chat_messages[1] IN
    [a EXCEPT !.content = [text |-> None, color |-> None,
                           chat_messages |-> Some(Append(msgs, message))],
              !.type = IF a.type = "highlight" THEN "chat_thread" ELSE a.type]

\* the handler putting the new message in front of the thread
WithChat_prepend(a, message) ==
    LET msgs == IF a.content.chat_messages = None
                THEN <<>> ELSE a.content.chat_messages[1] IN
    [a EXCEPT !.content.chat_messages = Some(<<message>> \o msgs),
              !.type = IF a.type = "highlight" THEN "chat_thread" ELSE a.type]

\* target_annotation after the handler has changed it in memory
WithChat(a, message) ==
    LET msgs == IF a.content.chat_messages = None
                THEN <<>> ELSE a.content.chat_messages[1] IN
    [a EXCEPT !.content.chat_messages = Some(Append(msgs, message)),
              !.type = IF a.type = "highlight" THEN "chat_thread" ELSE a.type]

ChatLen(a) ==
    IF a.content.chat_messages = None THEN 0 ELSE Len(a.content.chat_messages[1])

\* POST /api/annotations/{book_id}/{annotation_id}/chat
append_annotation_chat(book_id, annotation_id, message, io) ==
    LET path        == _get_annotations_path(book_id)
        annotations == load_annotations(disk[path])
        i           == FirstIndex(annotations, annotation_id) IN
    /\ IF i = 0
       THEN /\ io = "ok"
            /\ last' = Log("CHAT", book_id, annotation_id, NoBody, None,
                           Some(message), 404, None, FALSE, "ok", <<>>)
            /\ UNCHANGED disk
       ELSE LET target_annotation == WithChat(annotations[i], message)
                r == update_annotation_in_disk(disk[path], target_annotation,
                                               io) IN
            /\ ChatLen(annotations[i]) < MaxChat
            /\ ~r.wrote => io = "ok"
            /\ disk' = [disk EXCEPT ![path] = r.file]
            /\ last' = Log("CHAT", book_id, annotation_id, NoBody, None,
                           Some(message), IF r.raised THEN 500 ELSE 200, None,
                           r.wrote, io, <<>>)
    /\ UNCHANGED <<uuid_count, clock>>
    /\ before' = disk

WriteResults == {"ok", "eopen", "ewrite"}

Next ==
    \/ \E b \in ReqBooks : get_annotations(b) /\ UNCHANGED aux
    \/ \E b \in ReqBooks, body \in Bodies, io \in WriteResults \cup {"emkdir"} :
          create_annotation(b, body, io) /\ UNCHANGED aux
    \/ \E b \in ReqBooks, id \in PathIds, io \in WriteResults :
          delete_annotation(b, id, io) /\ UNCHANGED aux
    \/ \E b \in ReqBooks, id \in PathIds, body \in Bodies, io \in WriteResults :
          update_annotation(b, id, body, io) /\ UNCHANGED aux
    \/ \E b \in ReqBooks, id \in PathIds, m \in Messages, io \in WriteResults :
          append_annotation_chat(b, id, m, io) /\ UNCHANGED aux

Spec == Init /\ [][Next]_vars

(* ----------------------- chat threads on their own ---------------------- *)

\* two messages that differ in role and content, as a conversation has them
ChatMessages ==
    { [role |-> "user", content |-> "Explain"],
      [role |-> "assistant", content |-> "Because"] }

\* the bodies a thread is started from: they name their id and created_at
ChatBodies ==
    { WithKey(WithKey(base, "id", Some(i)), "created_at", Some(0)) :
        base \in {b \in BaseBodies : b["type"] \in Types}, i \in ClientIds }

\* the requests of a reader who creates annotations and chats about them
NextChat ==
    \/ \E b \in ReqBooks : get_annotations(b) /\ UNCHANGED aux
    \/ \E b \in ReqBooks, body \in ChatBodies :
          create_annotation(b, body, "ok") /\ UNCHANGED aux
    \/ \E b \in ReqBooks, id \in PathIds, m \in ChatMessages, io \in WriteResults :
          append_annotation_chat(b, id, m, io) /\ UNCHANGED aux

SpecChat == Init /\ [][NextChat]_vars

(* ------------------------ targets of every shape ------------------------ *)

\* the dicts a target is constructed from: rect is absent, null, the empty
\* list or a box; rects is absent, null or a list of one box
RawTargets ==
    { WithKey(WithKey([chapter_index |-> 0], "rect", r), "rects", rs) :
        r  \in {None, Some(None), Some(Some(<<>>)), Some(Some(R1))},
        rs \in {None, Some(None), Some(Some(<<R1>>)), Some(Some(<<R2>>))} }

\* request bodies that differ in their target alone
TargetBodies ==
    { [id |-> i, created_at |-> 0, type |-> "note", target |-> t,
       content |-> [text |-> Some("Edited"), color |-> Some("blue")]] :
        t \in RawTargets, i \in ClientIds }

\* the requests that construct a target: from a body, and from the file on
\* every load
NextTarget ==
    \/ \E b \in ReqBooks : get_annotations(b) /\ UNCHANGED aux
    \/ \E b \in ReqBooks, body \in TargetBodies :
          create_annotation(b, body, "ok") /\ UNCHANGED aux
    \/ \E b \in ReqBooks, id \in ClientIds, body \in TargetBodies :
          update_annotation(b, id, body, "ok") /\ UNCHANGED aux

SpecTarget == Init /\ [][NextTarget]_vars

(* --------------------------- several books ----------------------------- *)

\* what a reader posts to a book: the note's text names the book it is for
BookBodies(b) ==
    { [id |-> i, created_at |-> 0, type |-> t, target |-> T0,
       content |-> [text |-> Some(b), color |-> Some("yellow")]] :
        i \in ClientIds, t \in {"highlight", "note"} }

\* the five annotation requests, addressed to any book
NextBooks ==
    \/ \E b \in Books : get_annotations(b) /\ UNCHANGED aux
    \/ \E b \in Books : \E body \in BookBodies(b) :
          create_annotation(b, body, "ok") /\ UNCHANGED aux
    \/ \E b \in Books, id \in ClientIds :
          delete_annotation(b, id, "ok") /\ UNCHANGED aux
    \/ \E b \in Books, id \in ClientIds : \E body \in BookBodies(b) :
          update_annotation(b, id, body, "ok") /\ UNCHANGED aux
    \/ \E b \in Books, id \in ClientIds, m \in Messages :
          append_annotation_chat(b, id, m, "ok") /\ UNCHANGED aux

SpecBooks == Init /\ [][NextBooks]_vars

(* ------------------------ records of every type ------------------------ *)

\* bodies of each type and of a type the Literal does not list; the id is
\* the client's or left to the server
TypeBodies ==
    { WithKey([created_at |-> 0, type |-> t, target |-> T0,
               content |-> [text |-> Some("Original text"),
                            color |-> Some("yellow")]], "id", i) :
        t \in Types \cup {"bogus"}, i \in {None} \cup {Some(x) : x \in ClientIds} }

NextType ==
    \/ \E b \in ReqBooks : get_annotations(b) /\ UNCHANGED aux
    \/ \E b \in ReqBooks, body \in TypeBodies :
          create_annotation(b, body, "ok") /\ UNCHANGED aux
    \/ \E b \in ReqBooks, id \in PathIds :
          delete_annotation(b, id, "ok") /\ UNCHANGED aux
    \/ \E b \in ReqBooks, id \in PathIds, body \in TypeBodies :
          update_annotation(b, id, body, "ok") /\ UNCHANGED aux
    \/ \E b \in ReqBooks, id \in PathIds, m \in Messages :
          append_annotation_chat(b, id, m, "ok") /\ UNCHANGED aux

SpecType == Init /\ [][NextType]_vars

(* ------------------------ what has been deleted ------------------------ *)

\* bodies whose id is the client's or left to the server
DeleteBodies ==
    { WithKey([created_at |-> 0, type |-> "note", target |-> T0,
               content |-> [text |-> Some("Edited"), color |-> Some("blue")]],
              "id", i) :
        i \in {None} \cup {Some(x) : x \in ClientIds} }

\* the five requests; deleted takes up the id of every DELETE answered 200
NextDelete ==
    \/ \E b \in ReqBooks : get_annotations(b) /\ UNCHANGED aux
    \/ \E b \in ReqBooks, body \in DeleteBodies :
          create_annotation(b, body, "ok") /\ UNCHANGED aux
    \/ \E b \in ReqBooks, id \in PathIds :
          /\ delete_annotation(b, id, "ok")
          /\ deleted' = IF last'.status = 200
                        THEN deleted \cup {<<b, id>>} ELSE deleted
          /\ UNCHANGED <<history, inflight, reader>>
    \/ \E b \in ReqBooks, id \in PathIds, body \in DeleteBodies :
          update_annotation(b, id, body, "ok") /\ UNCHANGED aux
    \/ \E b \in ReqBooks, id \in PathIds, m \in Messages :
          append_annotation_chat(b, id, m, "ok") /\ UNCHANGED aux

SpecDelete == Init /\ [][NextDelete]_vars

(* ---------------------------- chat history ----------------------------- *)

\* chat_history.json holding a JSON array
HistoryFile(messages) == [kind |-> "array", items |-> messages]

\* load_chat_history: [] when there is no file or it cannot be parsed
load_chat_history(file) == IF file.kind = "array" THEN file.items ELSE <<>>

\* save_chat_history keeping the newest message alone
save_chat_history_last_only(messages) ==
    HistoryFile(IF messages = <<>> THEN <<>> ELSE <<messages[Len(messages)]>>)

\* save_chat_history: the file after json.dump(messages)
save_chat_history(messages) == HistoryFile(messages)

\* delete_chat_history: os.remove when the file exists
delete_chat_history(file) == IF file.kind = "absent" THEN file ELSE NoHistory

\* GET /api/chat-history/{book_id}
get_chat_history(book_id) ==
    /\ last' = Log("HGET", book_id, "-", NoBody, None, None, 200, None, FALSE,
                   "ok", load_chat_history(history[book_id]))
    /\ before' = disk
    /\ UNCHANGED <<disk, uuid_count, clock, history, deleted, inflight, reader>>

\* POST /api/chat-history/{book_id}; os.makedirs creates the book's
\* directory when it is not there
append_chat_message(book_id, message) ==
    LET messages == Append(load_chat_history(history[book_id]), message) IN
    /\ Len(load_chat_history(history[book_id])) < MaxHistory
    /\ history' = [history EXCEPT ![book_id] = save_chat_history(messages)]
    /\ disk' = [disk EXCEPT ![book_id].dir = TRUE]
    /\ last' = Log("HPOST", book_id, "-", NoBody, None, Some(message), 200, None,
                   TRUE, "ok", <<>>)
    /\ before' = disk
    /\ UNCHANGED <<uuid_count, clock, deleted, inflight, reader>>

\* DELETE /api/chat-history/{book_id}
clear_chat_history(book_id) ==
    /\ history' = [history EXCEPT ![book_id] = delete_chat_history(history[book_id])]
    /\ last' = Log("HDELETE", book_id, "-", NoBody, None, None, 200, None,
                   history[book_id].kind # "absent", "ok", <<>>)
    /\ before' = disk
    /\ UNCHANGED <<disk, uuid_count, clock, deleted, inflight, reader>>

NextHistory ==
    \/ \E b \in Books : get_chat_history(b)
    \/ \E b \in Books, m \in ChatMessages : append_chat_message(b, m)
    \/ \E b \in Books : clear_chat_history(b)

SpecHistory == Init /\ [][NextHistory]_vars

(* ----------------------- requests that overlap -------------------------- *)

\* the body a reader posts or puts: it carries an id of the client's making
\* and a text of its own
ReaderBody(t) ==
    [id |-> t, created_at |-> 0, type |-> "highlight", target |-> T0,
     content |-> [text |-> Some(t), color |-> Some("yellow")]]

\* ids a path can name: the stored one and those of the readers' own records
ReaderIds == ClientIds \cup Readers

\* the mutating requests a reader can be given
ReaderRequests(t) ==
    {[op |-> "POST", book |-> b, id |-> "-", body |-> ReaderBody(t), msg |-> None] :
        b \in ReqBooks}
    \cup {[op |-> "DELETE", book |-> b, id |-> i, body |-> NoBody, msg |-> None] :
        b \in ReqBooks, i \in ReaderIds}
    \cup {[op |-> "PUT", book |-> b, id |-> t, body |-> ReaderBody(t), msg |-> None] :
        b \in ReqBooks}
    \cup {[op |-> "CHAT", book |-> b, id |-> i, body |-> NoBody, msg |-> Some(m)] :
        b \in ReqBooks, i \in ReaderIds, m \in Messages}

\* the handler of the reader is between its first load and its response
Running(t) == inflight[t].stage \in {"found", "loaded"}

\* handlers declared with def: FastAPI runs them on worker threads, which
\* the interpreter switches between at any file operation
handler_yields_threadpool == TRUE

\* the annotation handlers are declared async def and contain no await, so
\* the event loop runs each from its first line to its return
handler_yields == FALSE

\* may the handler of reader t take its next step now?  On one event loop
\* it may not while another handler is running; handlers of different
\* server processes run as the operating system schedules them
MayRun(t, one_loop) ==
    (one_loop /\ ~handler_yields) => \A o \in Readers \ {t} : ~Running(o)

\* a store function that reads the file again at the moment it writes
reloaded_at_write(snap, current) == current

\* the list a store function works on is the one it loaded, whatever the
\* file holds by the time it writes
loaded_then_written(snap, current) == snap

\* a request comes in and FastAPI validates its body; overlapped records
\* that another request had come in and was not answered yet
accept_request(t, req) ==
    /\ inflight[t].stage = "idle"
    /\ inflight' = [inflight EXCEPT ![t] =
          [stage |-> "accepted", req |-> req,
           ann |-> IF req.op \in {"POST", "PUT"}
                   THEN Annotation(req.body, "unused", 0) ELSE None,
           overlapped |-> \E o \in Readers \ {t} :
                             inflight[o].stage \in {"accepted", "found", "loaded"}]]
    /\ UNCHANGED <<disk, uuid_count, clock, last, before, history, deleted, reader>>

\* the handler runs up to the first load of the collection: the store
\* function's own for POST, DELETE and PUT, the handler's search for chat
start_handler(t, one_loop) ==
    LET cur  == inflight[t]
        req  == cur.req
        path == _get_annotations_path(req.book)
        annotations == load_annotations(disk[path])
        i    == FirstIndex(annotations, req.id) IN
    /\ cur.stage = "accepted"
    /\ MayRun(t, one_loop)
    /\ IF req.op = "CHAT" /\ i = 0
       THEN /\ inflight' = [inflight EXCEPT ![t] =
                  [stage |-> "done", req |-> req, ann |-> None, status |-> 404,
                   overlapped |-> cur.overlapped]]
            /\ last' = Log("CHAT", req.book, req.id, NoBody, None, req.msg, 404,
                           None, FALSE, "ok", <<>>)
            /\ before' = disk
       ELSE IF req.op = "CHAT"
       THEN /\ ChatLen(annotations[i]) < MaxChat
            /\ inflight' = [inflight EXCEPT ![t] =
                  [stage |-> "found", req |-> req,
                   ann |-> Some(WithChat(annotations[i], req.msg[1])),
                   overlapped |-> cur.overlapped]]
            /\ UNCHANGED <<last, before>>
       ELSE /\ req.op = "POST" => Stored(disk) < MaxAnn
            /\ inflight' = [inflight EXCEPT ![t] =
                  [stage |-> "loaded", req |-> req, ann |-> cur.ann,
                   snap |-> disk[path], overlapped |-> cur.overlapped]]
            /\ UNCHANGED <<last, before>>
    /\ UNCHANGED <<disk, uuid_count, clock, history, deleted, reader>>

\* update_annotation_in_disk, called by the chat handler, loads the
\* collection for itself
store_load(t, one_loop) ==
    LET cur == inflight[t] IN
    /\ cur.stage = "found"
    /\ MayRun(t, one_loop)
    /\ inflight' = [inflight EXCEPT ![t] =
          [stage |-> "loaded", req |-> cur.req, ann |-> cur.ann,
           snap |-> disk[_get_annotations_path(cur.req.book)],
           overlapped |-> cur.overlapped]]
    /\ UNCHANGED <<disk, uuid_count, clock, last, before, history, deleted, reader>>

\* the store function changes the list it loaded and writes it; the
\* handler answers
store_write(t, one_loop) ==
    LET cur  == inflight[t]
        req  == cur.req
        path == _get_annotations_path(req.book)
        file == loaded_then_written(cur.snap, disk[path])
        r    == CASE req.op = "POST" ->
                       save_annotation_to_disk(file, cur.ann[1], "ok")
                  [] req.op = "DELETE" ->
                       delete_annotation_from_disk(file, req.id, "ok")
                  [] OTHER ->
                       update_annotation_in_disk(file, cur.ann[1], "ok")
        status == IF req.op \in {"DELETE", "PUT"} /\ ~r.ret THEN 404 ELSE 200 IN
    /\ cur.stage = "loaded"
    /\ MayRun(t, one_loop)
    /\ disk' = IF r.wrote THEN [disk EXCEPT ![path] = r.file] ELSE disk
    /\ last' = Log(req.op, req.book, req.id, req.body, cur.ann, req.msg, status,
                   IF req.op = "POST" THEN Some(cur.ann[1].id) ELSE None,
                   r.wrote, "ok", <<>>)
    /\ before' = [disk EXCEPT ![path] = cur.snap]
    /\ inflight' = [inflight EXCEPT ![t] =
          [stage |-> "done", req |-> req, ann |-> cur.ann, status |-> status,
           snap |-> cur.snap, overlapped |-> cur.overlapped]]
    /\ UNCHANGED <<uuid_count, clock, history, deleted, reader>>

\* two requests served by server processes of their own on one books
\* directory
NextRace ==
    \/ \E t \in Readers : \E req \in ReaderRequests(t) : accept_request(t, req)
    \/ \E t \in Readers : start_handler(t, FALSE)
    \/ \E t \in Readers : store_load(t, FALSE)
    \/ \E t \in Readers : store_write(t, FALSE)

SpecRace == Init /\ [][NextRace]_vars

\* two requests served by the one event loop of uvicorn.run(app)
NextServer ==
    \/ \E t \in Readers : \E req \in ReaderRequests(t) : accept_request(t, req)
    \/ \E t \in Readers : start_handler(t, TRUE)
    \/ \E t \in Readers : store_load(t, TRUE)
    \/ \E t \in Readers : store_write(t, TRUE)

SpecServer == Init /\ [][NextServer]_vars

(* -------------------------- reading progress --------------------------- *)

\* what the reader's handlers never touch: the counters and logs of the
\* annotation handlers, the chat histories and the overlapping requests
annot == <<uuid_count, clock, last, before, history, deleted, inflight>>

\* the annotation store before any request, with no book directory yet
InitStore ==
    /\ disk = [b \in Books |-> NoDir]
    /\ uuid_count = 0
    /\ clock = 0
    /\ before = disk
    /\ last = Log("start", "b1", "-", NoBody, None, None, 0, None, FALSE, "ok",
                  <<>>)
    /\ history = [b \in Books |-> NoHistory]
    /\ deleted = {}
    /\ inflight = [t \in Readers |-> Idle]

\* a progress file that holds the JSON object data
ProgressFile(data) == [kind |-> "json", data |-> data]

\* a progress file that json.load cannot parse
BadProgress == [kind |-> "malformed"]

\* the JSON object {}
EmptyDict == [key \in {} |-> 0]

\* os.path.exists answering False for a file that is there
exists_never(file) == FALSE

\* os.path.exists
exists(file) == file.kind # "absent"

\* ProgressUpdate(...).model_dump(): every field, defaults filled in
ProgressUpdate(chapter_index) ==
    [chapter_index |-> chapter_index, page_num |-> 1, scroll_position |-> 0,
     zoom |-> 100, dual_page |-> FALSE]

\* load_progress: {} when there is no file or it cannot be parsed
load_progress(file) == IF file.kind = "json" THEN file.data ELSE EmptyDict

\* save_progress_helper: makedirs, open(path, "w"), json.dump; made tells
\* whether the book directory exists afterwards because of the call
save_progress_helper(file, data, io) ==
    CASE io = "ok"     -> [file |-> ProgressFile(data), made |-> TRUE,
                           raised |-> FALSE]
      [] io = "emkdir" -> [file |-> file, made |-> FALSE, raised |-> TRUE]
      [] io = "eopen"  -> [file |-> file, made |-> TRUE, raised |-> TRUE]
      [] io = "ewrite" -> [file |-> BadProgress, made |-> TRUE, raised |-> TRUE]

\* what the file system can do to a write of progress.json
ProgressResults == {"ok", "emkdir", "eopen", "ewrite"}

\* the loop of migrate_global_progress over all_data.items(), which an
\* exception leaves: st holds the per-book files, the directories made and
\* whether a write has raised; io is what the file system does to the write
\* of each book's file
RECURSIVE migrate_books(_, _, _)
migrate_books(items, st, io) ==
    IF items = <<>> \/ st.raised
    THEN st
    ELSE LET book_id == items[1][1]
             data    == items[1][2]
             r == save_progress_helper(st.progress[book_id], data, io[book_id])
         IN
         IF exists(st.progress[book_id])
         THEN migrate_books(Tail(items), st, io)
         ELSE migrate_books(Tail(items),
                 [progress |-> [st.progress EXCEPT ![book_id] = r.file],
                  made     |-> IF r.made THEN st.made \cup {book_id} ELSE st.made,
                  raised   |-> r.raised],
                 io)

\* migrate_global_progress, run when the server module is loaded; rename_ok
\* is whether os.rename succeeds
migrate_global_progress(io, rename_ok) ==
    LET old == old_progress.file
        st0 == [progress |-> progress, made |-> {}, raised |-> FALSE]
        st  == IF old.kind = "json" THEN migrate_books(old.data, st0, io) ELSE st0
        renamed == old.kind = "json" /\ ~st.raised /\ rename_ok IN
    /\ progress' = st.progress
    /\ disk' = [b \in Books |->
                  IF b \in st.made THEN [disk[b] EXCEPT !.dir = TRUE] ELSE disk[b]]
    /\ old_progress' = IF renamed THEN [file |-> NoProgress, bak |-> old]
                       ELSE old_progress
    /\ page' = [op |-> "MIGRATE", before |-> progress, old |-> old_progress,
                dirs |-> disk]
    /\ UNCHANGED <<annot, library, cache>>

\* POST /api/progress/{book_id}: an exception of the helper is answered 500
save_progress(book_id, chapter_index, io) ==
    LET r == save_progress_helper(progress[book_id],
                                  ProgressUpdate(chapter_index), io) IN
    /\ progress' = [progress EXCEPT ![book_id] = r.file]
    /\ disk' = IF r.made THEN [disk EXCEPT ![book_id].dir = TRUE] ELSE disk
    /\ page' = [op |-> "PROGRESS", book |-> book_id,
                status |-> IF r.raised THEN 500 ELSE 200]
    /\ UNCHANGED <<annot, library, cache, old_progress>>

\* what the global file holds for one book
OldData(b) == [chapter_index |-> 1, book |-> b]

\* the global reading_progress.json as the server can find it: not there,
\* not parseable, or an object with entries for some of the books
OldProgressFiles ==
    { NoProgress, BadProgress, ProgressFile(<<>>),
      ProgressFile(<<<<"b1", OldData("b1")>>>>),
      ProgressFile(<<<<"b1", OldData("b1")>>, <<"b2", OldData("b2")>>>>),
      ProgressFile(<<<<"b2", OldData("b2")>>, <<"b1", OldData("b1")>>>>) }

InitMigrate ==
    /\ InitStore
    /\ library = [f \in Folders |-> NoPickle]
    /\ cache = <<>>
    /\ progress \in [Books -> {NoProgress, ProgressFile(ProgressUpdate(0))}]
    /\ old_progress \in [file : OldProgressFiles, bak : {NoProgress}]
    /\ page = NoPage

\* the server starts, and again; between starts readers save their progress
NextMigrate ==
    \/ \E io \in [Books -> ProgressResults], rename_ok \in BOOLEAN :
          migrate_global_progress(io, rename_ok)
    \/ \E b \in Books, io \in ProgressResults : save_progress(b, 0, io)

SpecMigrate == InitMigrate /\ [][NextMigrate]_vars

(* ------------------------------ the reader ----------------------------- *)

\* most chapters a book of the model has
MaxChapters == 3

\* lru_cache(maxsize=10)
maxsize == 10

\* a Book as the import leaves it in book.pkl: the name of its source file
\* and its chapters in reading order, here their hrefs
Book(source_file, n) ==
    [source_file |-> source_file, spine |-> [i \in 1..n |-> i - 1]]

\* books/<folder>/book.pkl holding a pickled Book
Pickle(book) == [kind |-> "book", book |-> book]

\* a book.pkl that pickle.load cannot read
BadPickle == [kind |-> "corrupt"]

\* the position of the folder's entry in the cache c, 0 when it has none
CacheIndex(c, folder_name) ==
    IF \E k \in 1..Len(c) : c[k].key = folder_name
    THEN CHOOSE k \in 1..Len(c) : c[k].key = folder_name
    ELSE 0

\* the body of load_book_cached: None when book.pkl is missing or cannot be
\* unpickled
read_book_pkl(folder_name) ==
    IF library[folder_name].kind = "book"
    THEN Some(library[folder_name].book)
    ELSE None

\* load_book_cached without the decorator: every call reads the disk
load_book_uncached(c, folder_name) ==
    [book |-> read_book_pkl(folder_name), cache |-> c, hit |-> FALSE]

\* load_book_cached called when the cache is c: a hit returns the memoized
\* result and makes the entry the most recently used; a miss runs the
\* body, memoizes what it returned, None too, and evicts the least recently
\* used entry when the cache is full
lru_cache(c, folder_name) ==
    LET k == CacheIndex(c, folder_name) IN
    IF k # 0
    THEN [book  |-> c[k].value,
          cache |-> SubSeq(c, 1, k - 1) \o SubSeq(c, k + 1, Len(c)) \o <<c[k]>>,
          hit   |-> TRUE]
    ELSE LET value == read_book_pkl(folder_name)
             room  == IF Len(c) >= maxsize THEN Tail(c) ELSE c IN
         [book  |-> value,
          cache |-> Append(room, [key |-> folder_name, value |-> value]),
          hit   |-> FALSE]

load_book_cached(folder_name) == lru_cache(cache, folder_name)

\* next_idx computed against the chapter count instead of the last index
next_idx_past_end(chapter_index, n) ==
    IF chapter_index < n THEN Some(chapter_index + 1) ELSE None

\* prev_idx = chapter_index - 1 if chapter_index > 0 else None
prev_idx(chapter_index) ==
    IF chapter_index > 0 THEN Some(chapter_index - 1) ELSE None

\* next_idx = chapter_index + 1 if chapter_index < len(book.spine) - 1
\* else None
next_idx(chapter_index, n) ==
    IF chapter_index < n - 1 THEN Some(chapter_index + 1) ELSE None

\* the answer of read_chapter and of get_chapter_content for a loaded book
ChapterPage(op, book_id, book, chapter_index, stored) ==
    IF book = None
    THEN [op |-> op, book |-> book_id, index |-> chapter_index, status |-> 404,
          detail |-> "Book not found"]
    ELSE IF chapter_index < 0 \/ chapter_index >= Len(book[1].spine)
    THEN [op |-> op, book |-> book_id, index |-> chapter_index, status |-> 404,
          detail |-> "Chapter not found"]
    ELSE [op |-> op, book |-> book_id, index |-> chapter_index, status |-> 200,
          chapter_index |-> chapter_index,
          href |-> book[1].spine[chapter_index + 1],
          prev_idx |-> prev_idx(chapter_index),
          next_idx |-> next_idx(chapter_index, Len(book[1].spine)),
          total_chapters |-> Len(book[1].spine),
          initial_scroll |->
             IF /\ "chapter_index" \in DOMAIN stored
                /\ stored["chapter_index"] = chapter_index
                /\ "scroll_position" \in DOMAIN stored
             THEN stored["scroll_position"] ELSE 0]

\* GET /read/{book_id}/{chapter_index}
read_chapter(book_id, chapter_index) ==
    LET r == load_book_cached(book_id) IN
    /\ cache' = r.cache
    /\ page' = ChapterPage("READ", book_id, r.book, chapter_index,
                           load_progress(progress[book_id]))
    /\ UNCHANGED <<disk, annot, library, progress, old_progress>>

\* GET /api/chapter/{book_id}/{chapter_index}
get_chapter_content(book_id, chapter_index) ==
    LET r == load_book_cached(book_id) IN
    /\ cache' = r.cache
    /\ page' = ChapterPage("CONTENT", book_id, r.book, chapter_index, EmptyDict)
    /\ UNCHANGED <<disk, annot, library, progress, old_progress>>

\* the stored chapter handed on as it is
resume_index_unchecked(stored, n) ==
    IF "chapter_index" \in DOMAIN stored THEN stored["chapter_index"] ELSE 0

\* chapter_idx = progress.get("chapter_index", 0), set to 0 when it is not
\* an index of the spine
resume_index(stored, n) ==
    LET chapter_idx == IF "chapter_index" \in DOMAIN stored
                       THEN stored["chapter_index"] ELSE 0 IN
    IF chapter_idx < 0 \/ chapter_idx >= n THEN 0 ELSE chapter_idx

\* GET /read/{book_id}: the PDF viewer for a PDF, else read_chapter at the
\* chapter to resume; read_chapter looks the book up again, which is a hit
redirect_to_first_chapter(book_id) ==
    LET r      == load_book_cached(book_id)
        stored == load_progress(progress[book_id]) IN
    /\ cache' = r.cache
    /\ page' =
         IF r.book = None
         THEN [op |-> "OPEN", book |-> book_id, status |-> 404,
               detail |-> "Book not found"]
         ELSE IF r.book[1].source_file = "original.pdf"
         THEN [op |-> "OPEN", book |-> book_id, status |-> 200,
               template |-> "pdf_reader.html",
               initial_page |-> IF "page_num" \in DOMAIN stored
                                THEN stored["page_num"] ELSE 1]
         ELSE [ChapterPage("READ", book_id, r.book,
                           resume_index(stored, Len(r.book[1].spine)), stored)
               EXCEPT !.op = "OPEN"]
    /\ UNCHANGED <<disk, annot, library, progress, old_progress>>

\* what book.pkl of the requested book can be
BookFiles ==
    {NoPickle, BadPickle, Pickle(Book("original.pdf", 1))}
    \cup {Pickle(Book("book.epub", n)) : n \in 0..MaxChapters}

\* chapter indexes a request or a progress file can carry
ChapterIndexes == -1..MaxChapters

\* what progress.json of the requested book can be: not there, not
\* parseable, saved by the server, or migrated without a chapter
ProgressFiles ==
    {NoProgress, BadProgress, ProgressFile([page_num |-> 3])}
    \cup {ProgressFile(ProgressUpdate(i)) : i \in ChapterIndexes}

InitReader ==
    /\ InitStore
    /\ \E file \in BookFiles :
          library = [f \in Folders |-> IF f \in ReqBooks THEN file ELSE NoPickle]
    /\ cache = <<>>
    /\ \E file \in ProgressFiles :
          progress = [b \in Books |-> IF b \in ReqBooks THEN file ELSE NoProgress]
    /\ old_progress = [file |-> NoProgress, bak |-> NoProgress]
    /\ page = NoPage

\* a reader opens books, turns pages and has the position saved
NextReader ==
    \/ \E b \in ReqBooks, i \in ChapterIndexes : read_chapter(b, i)
    \/ \E b \in ReqBooks, i \in ChapterIndexes : get_chapter_content(b, i)
    \/ \E b \in ReqBooks : redirect_to_first_chapter(b)
    \/ \E b \in ReqBooks, i \in ChapterIndexes : save_progress(b, i, "ok")

SpecReader == InitReader /\ [][NextReader]_vars

(* ----------------------------- the book cache -------------------------- *)

\* the scan of library_view over the folders still to visit: c is the
\* cache so far, books the ids listed so far
RECURSIVE scan_library(_, _, _)
scan_library(items, c, books) ==
    IF items = <<>>
    THEN [cache |-> c, books |-> books]
    ELSE LET r == lru_cache(c, items[1]) IN
         scan_library(Tail(items), r.cache,
                      IF r.book # None THEN Append(books, items[1]) ELSE books)

\* GET /: every folder is looked up, in the order of os.listdir, and listed
\* when the lookup gave a book
library_view ==
    LET r == scan_library(FolderList, cache, <<>>) IN
    /\ cache' = r.cache
    /\ page' = [op |-> "LIBRARY", books |-> r.books]
    /\ UNCHANGED <<disk, annot, library, progress, old_progress>>

\* the import writes book.pkl of a folder while the server runs
import_book(folder_name, n) ==
    /\ library[folder_name] # Pickle(Book("book.epub", n))
    /\ library' = [library EXCEPT ![folder_name] = Pickle(Book("book.epub", n))]
    /\ page' = [op |-> "IMPORT", book |-> folder_name]
    /\ UNCHANGED <<disk, annot, cache, progress, old_progress>>

\* load_book_cached.cache_clear()
cache_clear ==
    /\ cache' = <<>>
    /\ page' = [op |-> "CLEAR"]
    /\ UNCHANGED <<disk, annot, library, progress, old_progress>>

\* the folders whose book.pkl changes and whose chapters are asked for
CacheBooks == {"b1", "b2", "f11"}

InitCache ==
    /\ InitStore
    /\ \E file \in {NoPickle, BadPickle, Pickle(Book("book.epub", 1))} :
          library = [f \in Folders |->
                       IF f \in ReqBooks THEN file
                       ELSE Pickle(Book("book.epub", 1))]
    /\ cache = <<>>
    /\ progress = [b \in Books |-> NoProgress]
    /\ old_progress = [file |-> NoProgress, bak |-> NoProgress]
    /\ page = NoPage

\* chapters are asked for, the library is listed, books are imported and
\* the cache is cleared
NextCache ==
    \/ \E b \in CacheBooks : get_chapter_content(b, 0)
    \/ library_view
    \/ \E b \in ReqBooks, n \in 1..2 : import_book(b, n)
    \/ cache_clear

SpecCache == InitCache /\ [][NextCache]_vars

(* ------------------------------- claims -------------------------------- *)

\* what load_annotations returns for a book in a given state of the disk
Coll(d, b) == load_annotations(d[b])

HasId(annotations, id) == FirstIndex(annotations, id) # 0

\* the file holds a valid collection, or there is no file
ValidFile(file) ==
    \/ file.kind = "absent"
    \/ file.kind = "array" /\ ParseAll(file.items) # None

RECURSIVE Without(_, _)
\* the records whose id is not the given one, in their order
Without(annotations, id) ==
    IF annotations = <<>> THEN <<>>
    ELSE IF annotations[1].id = id THEN Without(Tail(annotations), id)
    ELSE <<annotations[1]>> \o Without(Tail(annotations), id)

\* C1: after save_annotation_to_disk(book, A) has returned, load_annotations
\* of the book contains a record equal to A in every field, id and
\* created_at included.
C1_RoundTrip ==
    (last.op = "POST" /\ last.status = 200) =>
        \E i \in 1..Len(Coll(disk, last.book)) :
            Coll(disk, last.book)[i] = last.ann[1]

\* an append with server-assigned id and created_at landed behind another
\* record, on a target whose rects is null although rect is given
C1_Witness ==
    /\ last.op = "POST" /\ last.status = 200
    /\ "id" \notin DOMAIN last.body /\ "created_at" \notin DOMAIN last.body
    /\ Len(Coll(disk, last.book)) = 2
    /\ Coll(disk, last.book)[2] = last.ann[1]
    /\ last.ann[1].target.rect = Some(R1) /\ last.ann[1].target.rects = None

\* C2: a successful append to a file that holds the valid collection C
\* leaves the file holding C followed by A: one more element, the same
\* records in the same order, A last.
C2_AppendKeeps ==
    (last.op = "POST" /\ last.status = 200 /\ ValidFile(before[last.book])) =>
       /\ Coll(disk, last.book)
            = Append(Coll(before, last.book), last.ann[1])
       /\ Len(disk[last.book].items) = Len(before[last.book].items) + 1
       /\ disk[last.book].items
            = Append(DumpAll(Coll(before, last.book)), model_dump(last.ann[1]))

\* an append behind a legacy record that the file held without rects key
C2_Witness ==
    /\ last.op = "POST" /\ last.status = 200
    /\ before[last.book] = ArrayFile(<<LegacyItem>>)
    /\ Len(Coll(disk, last.book)) = 2
    /\ Coll(disk, last.book)[1].id # Coll(disk, last.book)[2].id
    /\ Coll(disk, last.book)[2] = last.ann[1]

\* C3: the id in the 200 response of POST is the id of the stored record;
\* on a previously empty book a GET then returns exactly one record, with
\* that id and the posted type; and the lookups of DELETE, PUT and
\* chat-append, run on that id, find the record.
C3_ReturnedIdIsStored ==
    (last.op = "POST" /\ last.status = 200) =>
       LET new == Coll(disk, last.book) IN
       /\ last.resp_id # None
       /\ new[Len(new)].id = last.resp_id[1]
       /\ Coll(before, last.book) = <<>> =>
             /\ Len(new) = 1
             /\ new[1].id = last.resp_id[1]
             /\ new[1].type = last.body["type"]
       /\ delete_annotation_from_disk(disk[last.book], last.resp_id[1], "ok").ret
       /\ \A t \in Types :
             update_annotation_in_disk(disk[last.book],
                 [last.ann[1] EXCEPT !.id = last.resp_id[1], !.type = t], "ok").ret
       /\ FirstIndex(new, last.resp_id[1]) # 0

\* a POST without id on a book that held nothing: the response carries the
\* generated id and the collection is the one record
C3_Witness ==
    /\ last.op = "POST" /\ last.status = 200
    /\ "id" \notin DOMAIN last.body
    /\ Coll(before, last.book) = <<>>
    /\ last.resp_id = Some(Uuid(1))
    /\ Len(Coll(disk, last.book)) = 1

\* C4: on create the stored id and created_at are generated by the server:
\* when the body carries an id (a created_at), the stored record's id
\* (created_at) is not the one the body carried.
C4_ServerAssigned ==
    (last.op = "POST" /\ last.status = 200) =>
        LET stored == Coll(disk, last.book)[Len(Coll(disk, last.book))] IN
        /\ "id" \in DOMAIN last.body => stored.id # last.body["id"]
        /\ "created_at" \in DOMAIN last.body =>
              stored.created_at # last.body["created_at"]

\* C5: deleting an id that the collection contains does not answer
\* not-found; when the call returns (True, 200) the collection is the old
\* one without the records of that id: the others are all there, unchanged
\* and in their order.
C5_DeleteExisting ==
    (last.op = "DELETE" /\ HasId(Coll(before, last.book), last.id)) =>
       /\ last.status \in {200, 500}
       /\ last.wrote
       /\ last.status = 200 =>
             /\ ~HasId(Coll(disk, last.book), last.id)
             /\ Coll(disk, last.book)
                  = Without(Coll(before, last.book), last.id)

\* a delete that left another record behind
C5_Witness ==
    /\ last.op = "DELETE" /\ last.status = 200
    /\ Len(Coll(disk, last.book)) = 1
    /\ Coll(disk, last.book)[1].id # last.id

\* C6: deleting an id that the collection does not contain answers
\* not-found (False, 404), opens no file for writing and leaves the disk as
\* it was, whatever the state of the book: no directory, no file, an empty
\* array, a file that does not load, or a collection without the id.
C6_DeleteMissing ==
    (last.op = "DELETE" /\ ~HasId(Coll(before, last.book), last.id)) =>
       /\ last.status = 404
       /\ ~last.wrote
       /\ disk = before

\* not-found on a collection that holds a record of another id
C6_Witness ==
    /\ last.op = "DELETE" /\ last.status = 404
    /\ Len(Coll(disk, last.book)) = 1
    /\ Coll(disk, last.book)[1].id # last.id

\* C7: an update whose annotation carries an id of the collection does not
\* answer not-found; when it returns (True, 200) the first record of that
\* id has the supplied type, target and content, in the same position, and
\* every other record, the length and the order are as before.
C7_UpdateExisting ==
    (/\ last.op = "PUT" /\ last.ann # None
     /\ last.ann[1].id = last.id
     /\ HasId(Coll(before, last.book), last.id)) =>
       LET old == Coll(before, last.book)
           new == Coll(disk, last.book)
           i   == FirstIndex(old, last.id) IN
       /\ last.status \in {200, 500}
       /\ last.status = 200 =>
             /\ Len(new) = Len(old)
             /\ new[i].id = last.id
             /\ new[i].type = last.ann[1].type
             /\ new[i].target = last.ann[1].target
             /\ new[i].content = last.ann[1].content
             /\ \A j \in 1..Len(old) : j # i => new[j] = old[j]

\* an update that changed type, target and content of the second of two
\* records
C7_Witness ==
    /\ last.op = "PUT" /\ last.status = 200
    /\ Len(Coll(disk, last.book)) = 2
    /\ Coll(disk, last.book)[1].id # last.id
    /\ Coll(disk, last.book)[2].id = last.id
    /\ Coll(disk, last.book)[2].type = "note"
    /\ Coll(disk, last.book)[2].content.text = Some("Edited")

\* C8: an update whose annotation carries an id that no record has answers
\* not-found (False, 404), opens no file for writing and leaves the disk as
\* it was; nothing is created for a book without directory.
C8_UpdateMissing ==
    (/\ last.op = "PUT" /\ last.ann # None
     /\ last.ann[1].id = last.id
     /\ ~HasId(Coll(before, last.book), last.id)) =>
       /\ last.status = 404
       /\ ~last.wrote
       /\ disk = before

\* not-found on a book that has no directory
C8_Witness ==
    /\ last.op = "PUT" /\ last.status = 404
    /\ disk[last.book] = NoDir

\* C9: a PUT whose annotation carries an id other than the one in the path
\* answers 400 and does not reach the store, whether or not either id is in
\* the collection.
C9_IdMismatch ==
    (/\ last.op = "PUT" /\ last.ann # None
     /\ last.ann[1].id # last.id) =>
       /\ last.status = 400
       /\ ~last.wrote
       /\ disk = before

\* 400 although both the path's id and the body's id are in the collection
C9_Witness ==
    /\ last.op = "PUT" /\ last.status = 400
    /\ HasId(Coll(before, last.book), last.id)
    /\ HasId(Coll(before, last.book), last.ann[1].id)

\* C10: a successful chat-append turns a highlight into a chat_thread and
\* leaves a note a note and a chat_thread a chat_thread.
C10_ChatPromotion ==
    (last.op = "CHAT" /\ last.status = 200) =>
       LET old == Coll(before, last.book)
           new == Coll(disk, last.book)
           i   == FirstIndex(old, last.id) IN
       /\ i # 0
       /\ old[i].type = "highlight" => new[i].type = "chat_thread"
       /\ old[i].type = "note" => new[i].type = "note"
       /\ old[i].type = "chat_thread" => new[i].type = "chat_thread"

\* a chat thread that was a highlight took its second message
C10_Witness ==
    /\ last.op = "CHAT" /\ last.status = 200
    /\ \E i \in 1..Len(Coll(disk, last.book)) :
          /\ Coll(disk, last.book)[i].id = last.id
          /\ Coll(disk, last.book)[i].type = "chat_thread"
          /\ ChatLen(Coll(disk, last.book)[i]) = 2

\* C11: after every successful chat-append the stored chat_messages of the
\* annotation is the sequence stored before it, taken as empty when it was
\* null, with the new message added at the end; so earlier messages keep
\* their order and an identical message is stored again.
C11_ChatAppendOrder ==
    (last.op = "CHAT" /\ last.status = 200) =>
       LET old  == Coll(before, last.book)
           new  == Coll(disk, last.book)
           i    == FirstIndex(old, last.id)
           msgs == IF old[i].content.chat_messages = None
                   THEN <<>> ELSE old[i].content.chat_messages[1] IN
       new[i].content.chat_messages = Some(Append(msgs, last.msg[1]))

\* a thread took a second message that differs from its first
C11_Witness ==
    /\ last.op = "CHAT" /\ last.status = 200
    /\ \E i \in 1..Len(Coll(disk, last.book)) :
          LET c == Coll(disk, last.book)[i].content.chat_messages IN
          /\ Coll(disk, last.book)[i].id = last.id
          /\ c # None
          /\ Len(c[1]) = 2
          /\ c[1][1] # c[1][2]
          /\ c[1][2] = last.msg[1]

\* C12: POST .../chat for an annotation id that no record of the book has,
\* a book without a file included, answers 404 and writes nothing; the disk
\* is as it was.
C12_ChatMissing ==
    (/\ last.op = "CHAT"
     /\ \A i \in 1..Len(Coll(before, last.book)) :
           Coll(before, last.book)[i].id # last.id) =>
       /\ last.status = 404
       /\ ~last.wrote
       /\ disk = before

\* 404 for an id that is not among the records the book does hold
C12_Witness ==
    /\ last.op = "CHAT" /\ last.status = 404
    /\ Len(Coll(before, last.book)) > 0
    /\ disk = before

\* C13: a successful chat-append to X leaves X's id, created_at, target,
\* content.text and content.color as they were, and every other record of
\* the collection unchanged at its position.
C13_ChatFrame ==
    (last.op = "CHAT" /\ last.status = 200) =>
       LET old == Coll(before, last.book)
           new == Coll(disk, last.book)
           i   == FirstIndex(old, last.id) IN
       /\ Len(new) = Len(old)
       /\ \A j \in 1..Len(old) : j # i => new[j] = old[j]
       /\ new[i].id = old[i].id
       /\ new[i].created_at = old[i].created_at
       /\ new[i].target = old[i].target
       /\ new[i].content.text = old[i].content.text
       /\ new[i].content.color = old[i].content.color
       /\ new[i].content.chat_messages # old[i].content.chat_messages

\* the message went to the first of two records, one that has a text, a
\* colour and a rect
C13_Witness ==
    /\ last.op = "CHAT" /\ last.status = 200
    /\ Len(Coll(before, last.book)) = 2
    /\ Coll(before, last.book)[1].id = last.id
    /\ Coll(before, last.book)[1].content.text # None
    /\ Coll(before, last.book)[1].content.color # None
    /\ Coll(before, last.book)[1].target.rect # None

\* C14: load_annotations returns the empty sequence when the book has no
\* file, when the file is malformed and when any one record of it fails
\* validation; GET /api/annotations/{book} answers 200 with that list.
C14_FailSoftRead ==
    /\ \A b \in Books :
          (\/ disk[b].kind # "array"
           \/ \E i \in 1..Len(disk[b].items) :
                 Annotation(disk[b].items[i], "unused", 0) = None) =>
             Coll(disk, b) = <<>>
    /\ last.op = "GET" =>
          /\ last.status = 200
          /\ last.resp = Coll(before, last.book)
          /\ disk = before

\* GET answered 200 with the empty list for a file whose first record is
\* valid and whose second is not
C14_Witness ==
    /\ last.op = "GET" /\ last.status = 200 /\ last.resp = <<>>
    /\ before[last.book].kind = "array"
    /\ Len(before[last.book].items) = 2
    /\ Annotation(before[last.book].items[1], "unused", 0) # None
    /\ Annotation(before[last.book].items[2], "unused", 0) = None

\* C15: when creating the directory or writing the file fails during an
\* append, a delete, an update or a chat-append, the endpoint answers 500;
\* a 200 is only ever answered after a write that succeeded.
C15_FailLoudWrite ==
    (last.op \in {"POST", "PUT", "DELETE", "CHAT"}) =>
       /\ last.io # "ok" => last.status = 500
       /\ (last.status = 200 /\ last.wrote) =>
             /\ last.io = "ok"
             /\ disk[last.book].kind = "array"
             /\ ParseAll(disk[last.book].items) # None

\* a chat-append whose write broke off after the file was truncated
C15_Witness ==
    /\ last.op = "CHAT" /\ last.io = "ewrite" /\ last.status = 500
    /\ HasId(Coll(before, last.book), last.id)
    /\ disk[last.book] = Malformed

\* C16: an AnnotationTarget constructed from input that supplies rect = R
\* and no rects has rects = [R], for every list R.
C16_LegacyMigration ==
    (/\ last.op \in {"POST", "PUT"} /\ last.ann # None
     /\ "rect" \in DOMAIN last.body["target"]
     /\ last.body["target"]["rect"] # None
     /\ "rects" \notin DOMAIN last.body["target"]) =>
       last.ann[1].target.rects = Some(<<last.body["target"]["rect"][1]>>)

\* C17: a target constructed from input that supplies both rect and rects
\* has rects exactly as given and rect exactly as given, and the record
\* loaded after the annotation was stored has them too.
C17_MixedPrecedence ==
    (/\ last.op \in {"POST", "PUT"} /\ last.ann # None
     /\ "rect" \in DOMAIN last.body["target"]
     /\ last.body["target"]["rect"] # None
     /\ "rects" \in DOMAIN last.body["target"]
     /\ last.body["target"]["rects"] # None) =>
       /\ last.ann[1].target.rects = last.body["target"]["rects"]
       /\ last.ann[1].target.rect = last.body["target"]["rect"]
       /\ last.status = 200 =>
             LET new == Coll(disk, last.book)
                 i   == IF last.op = "POST" THEN Len(new)
                        ELSE FirstIndex(Coll(before, last.book), last.id) IN
             /\ new[i].target.rects = last.body["target"]["rects"]
             /\ new[i].target.rect = last.body["target"]["rect"]

\* a record created from {rect: R1, rects: [R2]} came back from the file
C17_Witness ==
    /\ last.op = "POST" /\ last.status = 200
    /\ Get(last.body["target"], "rect") = Some(R1)
    /\ Get(last.body["target"], "rects") = Some(<<R2>>)
    /\ Coll(disk, last.book)[Len(Coll(disk, last.book))].target.rects = Some(<<R2>>)
    /\ Coll(disk, last.book)[Len(Coll(disk, last.book))].target.rect = Some(R1)

\* C18: the target constructed from {rect: R} has the rects of the target
\* constructed from {rects: [R]}; and constructing a target again from the
\* dumped form of a stored target yields the same rect and rects.
C18_MigrationIdempotence ==
    /\ (/\ last.op \in {"POST", "PUT"} /\ last.ann # None
        /\ "rect" \in DOMAIN last.body["target"]
        /\ last.body["target"]["rect"] # None
        /\ "rects" \notin DOMAIN last.body["target"]) =>
          last.ann[1].target.rects =
             AnnotationTarget([chapter_index |-> 0,
                               rects |-> Some(<<last.body["target"]["rect"][1]>>)])[1].rects
    /\ \A b \in Books : \A i \in 1..Len(Coll(disk, b)) :
          LET t     == Coll(disk, b)[i].target
              again == AnnotationTarget(model_dump(Coll(disk, b)[i])["target"]) IN
          /\ again # None
          /\ again[1].rect = t.rect
          /\ again[1].rects = t.rects

\* C19: on create, on update and on load alike, a record whose input has a
\* rect value and no rects value (the key absent or null) has rects = [rect]
\* when the store persists it and when the store returns it.
C19_MigrationEveryPath ==
    /\ (/\ last.op \in {"POST", "PUT"} /\ last.status = 200
        /\ "rect" \in DOMAIN last.body["target"]
        /\ last.body["target"]["rect"] # None
        /\ Get(last.body["target"], "rects") = None) =>
          LET new == Coll(disk, last.book)
              i   == IF last.op = "POST" THEN Len(new)
                     ELSE FirstIndex(Coll(before, last.book), last.id) IN
          new[i].target.rects = Some(<<last.body["target"]["rect"][1]>>)
    /\ \A b \in Books : \A i \in 1..Len(Coll(disk, b)) :
          LET raw == disk[b].items[i]["target"] IN
          ("rect" \in DOMAIN raw /\ raw["rect"] # None /\ Get(raw, "rects") = None) =>
             Coll(disk, b)[i].target.rects = Some(<<raw["rect"][1]>>)

\* C20: a successful PUT or chat-append leaves the stored created_at and
\* the stored id of the annotation as they were.
C20_CreatedAtImmutable ==
    (last.op \in {"PUT", "CHAT"} /\ last.status = 200) =>
       LET old == Coll(before, last.book)
           new == Coll(disk, last.book)
           i   == FirstIndex(old, last.id) IN
       /\ new[i].created_at = old[i].created_at
       /\ new[i].id = old[i].id

\* C21: in every reachable state the ids of the records of one book's
\* collection are pairwise distinct.
C21_IdUniqueness ==
    \A b \in Books : \A i, j \in 1..Len(Coll(disk, b)) :
        i # j => Coll(disk, b)[i].id # Coll(disk, b)[j].id

\* C22: a request addressed to book A leaves the file of every other book
\* as it was, answers from A's file alone, and no record posted to one book
\* is ever in the collection of another.
C22_BookIsolation ==
    /\ \A b \in Books \ {last.book} : disk[b] = before[b]
    /\ \A b \in Books : \A i \in 1..Len(Coll(disk, b)) :
          \A o \in Books \ {b} : Coll(disk, b)[i].content.text # Some(o)
    /\ last.op = "GET" => last.resp = Coll(before, last.book)
    /\ (last.op = "POST" /\ last.status = 200 /\ ValidFile(before[last.book])) =>
          Coll(disk, last.book) = Append(Coll(before, last.book), last.ann[1])
    /\ (last.op \in {"DELETE", "PUT", "CHAT"} /\ last.status = 404) =>
          ~HasId(Coll(before, last.book), last.id)

\* a first record went into b2 while b1 held a record of its own
C22_Witness ==
    /\ last.op = "POST" /\ last.status = 200 /\ last.book = "b2"
    /\ Len(Coll(disk, "b1")) = 1
    /\ disk["b1"] = before["b1"]
    /\ Coll(disk, "b2") = <<last.ann[1]>>
    /\ Coll(disk, "b1")[1].content.text = Some("b1")

\* C25: when a book's file is malformed or holds a record that fails
\* validation, load returns empty; delete, update and chat-append answer
\* not-found and write nothing; and a successful append leaves a file of
\* exactly one record, the new annotation, which is what load then returns.
C25_SelfHealing ==
    ~ValidFile(before[last.book]) =>
       /\ Coll(before, last.book) = <<>>
       /\ (\/ last.op \in {"DELETE", "CHAT"}
           \/ last.op = "PUT" /\ last.status \notin {400, 422}) =>
             /\ last.status = 404
             /\ ~last.wrote
             /\ disk = before
       /\ (last.op = "POST" /\ last.status = 200) =>
             /\ disk[last.book].kind = "array"
             /\ Len(disk[last.book].items) = 1
             /\ Coll(disk, last.book) = <<last.ann[1]>>

\* an append onto a file of two records, the first valid and the second not
C25_Witness ==
    /\ last.op = "POST" /\ last.status = 200
    /\ before[last.book].kind = "array"
    /\ Len(before[last.book].items) = 2
    /\ Annotation(before[last.book].items[1], "unused", 0) # None
    /\ ParseAll(before[last.book].items) = None
    /\ Coll(disk, last.book) = <<last.ann[1]>>

\* C26: once DELETE of id X on a book has answered 200, no record with id X
\* is in the book's collection or in the answer of a GET, and a PUT or a
\* chat-append addressed to X does not answer 200, whatever was requested
\* in between.
C26_DeleteFinal ==
    /\ \A d \in deleted : ~HasId(Coll(disk, d[1]), d[2])
    /\ last.op = "GET" =>
          \A d \in deleted : d[1] = last.book => ~HasId(last.resp, d[2])
    /\ (last.op \in {"PUT", "CHAT"} /\ <<last.book, last.id>> \in deleted) =>
          last.status # 200

\* C27: load, create and delete leave the type of every existing record as
\* it was; chat-append changes the type of its record from highlight to
\* chat_thread and no other type; a full update of a stored record sets its
\* type to the body's, whichever of the three it is and whatever it was;
\* and no write stores a type other than highlight, note and chat_thread.
C27_TypeTransitions ==
    LET three == {"highlight", "note", "chat_thread"}
        old   == Coll(before, last.book)
        new   == Coll(disk, last.book)
        i     == FirstIndex(old, last.id) IN
    /\ (last.wrote /\ last.io = "ok") =>
          \A k \in 1..Len(disk[last.book].items) :
              disk[last.book].items[k]["type"] \in three
    /\ (last.op \in {"POST", "PUT"} /\ last.body["type"] \notin three) =>
          last.status = 422 /\ disk = before
    /\ last.op = "GET" => disk = before
    /\ (last.op = "POST" /\ last.status = 200) =>
          \A k \in 1..Len(old) : new[k].type = old[k].type
    /\ (last.op = "DELETE" /\ last.status = 200) =>
          /\ Len(new) = Len(Without(old, last.id))
          /\ \A k \in 1..Len(new) : new[k].type = Without(old, last.id)[k].type
    /\ (last.op = "CHAT" /\ last.status = 200) =>
          \A k \in 1..Len(old) :
              new[k].type = IF k = i /\ old[k].type = "highlight"
                            THEN "chat_thread" ELSE old[k].type
    /\ (/\ last.op = "PUT" /\ last.body["type"] \in three
        /\ last.ann[1].id = last.id /\ i # 0 /\ last.io = "ok") =>
          /\ last.status = 200
          /\ new[i].type = last.body["type"]
          /\ \A k \in 1..Len(old) : k # i => new[k].type = old[k].type

\* an update turned a chat thread that has a message back into a highlight
C27_Witness ==
    /\ last.op = "PUT" /\ last.status = 200
    /\ \E k \in 1..Len(Coll(before, last.book)) :
          /\ k = FirstIndex(Coll(before, last.book), last.id)
          /\ Coll(before, last.book)[k].type = "chat_thread"
          /\ ChatLen(Coll(before, last.book)[k]) > 0
          /\ Coll(disk, last.book)[k].type = "highlight"

C30_Duplicates ==
    LET old == Coll(before, last.book)
        new == Coll(disk, last.book)
        dup == {k \in 1..Len(old) : old[k].id = last.id} IN
    (Cardinality(dup) >= 2 /\ last.status = 200) =>
       LET i == CHOOSE k \in dup : \A j \in dup : k <= j IN
       /\ last.op = "DELETE" =>
             /\ Len(new) = Len(old) - Cardinality(dup)
             /\ \A k \in 1..Len(new) : new[k].id # last.id
       /\ last.op \in {"PUT", "CHAT"} =>
             /\ Len(new) = Len(old)
             /\ \A j \in 1..Len(old) : j # i => new[j] = old[j]
       /\ last.op = "PUT" => new[i] = last.ann[1]
       /\ last.op = "CHAT" =>
             /\ new[i] # old[i]
             /\ new[i].content.chat_messages[1]
                  [Len(new[i].content.chat_messages[1])] = last.msg[1]

\* an update that met two different records with its id and replaced the
\* first by a record that differs from both
C30_Witness ==
    /\ last.op = "PUT" /\ last.status = 200
    /\ Len(Coll(before, last.book)) = 2
    /\ Coll(before, last.book)[1].id = last.id
    /\ Coll(before, last.book)[2].id = last.id
    /\ Coll(before, last.book)[1] # Coll(before, last.book)[2]
    /\ Coll(disk, last.book)[1] = last.ann[1]
    /\ Coll(disk, last.book)[1] # Coll(before, last.book)[1]
    /\ Coll(disk, last.book)[2] = Coll(before, last.book)[2]
    /\ Coll(disk, last.book)[1] # Coll(disk, last.book)[2]

\* C23: a store function writes the list it loaded with its own change and
\* nothing else, whatever was written to the file since the load: after a
\* write the file is the writer's snapshot with the writer's change, and of
\* two creates that loaded the same contents the file shows the later
\* writer's record and not the earlier writer's.
C23_LastWriterWins ==
    LET old == Coll(before, last.book)
        new == Coll(disk, last.book)
        hit == {k \in 1..Len(old) : old[k].id = last.id} IN
    (last.op \in {"POST", "DELETE", "PUT", "CHAT"} /\ last.wrote) =>
       /\ last.op = "POST" => new = Append(old, last.ann[1])
       /\ last.op = "DELETE" => new = Without(old, last.id)
       /\ last.op \in {"PUT", "CHAT"} =>
             /\ hit # {}
             /\ Len(new) = Len(old)
             /\ \A k \in 1..Len(old) :
                   new[k] = IF k \in hit /\ \A j \in hit : k <= j
                            THEN last.ann[1] ELSE old[k]
       /\ \A t \in Readers : \A o \in Readers \ {t} :
             (/\ inflight[t].stage = "done" /\ inflight[o].stage = "done"
              /\ inflight[t].req.op = "POST" /\ inflight[o].req.op = "POST"
              /\ inflight[t].req.book = inflight[o].req.book
              /\ inflight[t].snap = inflight[o].snap
              /\ last.op = "POST" /\ last.ann = inflight[t].ann)
             => \A k \in 1..Len(new) : new[k] # inflight[o].ann[1]

\* two creates on one book that loaded the same non-empty collection: both
\* were answered 200, the file is that collection with the later writer's
\* record, and the earlier writer's record is not in it
C23_Witness ==
    \E t \in Readers : \E o \in Readers \ {t} :
       /\ inflight[t].stage = "done" /\ inflight[o].stage = "done"
       /\ inflight[t].req.op = "POST" /\ inflight[o].req.op = "POST"
       /\ inflight[t].status = 200 /\ inflight[o].status = 200
       /\ inflight[t].snap = inflight[o].snap
       /\ last.op = "POST" /\ last.ann = inflight[t].ann
       /\ Len(Coll(before, last.book)) = 1
       /\ Coll(disk, last.book) = Append(Coll(before, last.book), last.ann[1])
       /\ \A k \in 1..Len(Coll(disk, last.book)) :
             Coll(disk, last.book)[k] # inflight[o].ann[1]

\* C24: on the one event loop of the server no store operation of another
\* request runs between a handler's load and its write: at most one
\* handler is between its load and its response, the file a handler loaded
\* is still the file on disk when it writes, and when the creates of all
\* overlapping requests have answered 200 every one of their records is in
\* the collection.
C24_AtomicHandlers ==
    /\ \A t \in Readers : \A o \in Readers \ {t} : ~(Running(t) /\ Running(o))
    /\ \A t \in Readers :
          inflight[t].stage = "loaded" =>
             inflight[t].snap = disk[_get_annotations_path(inflight[t].req.book)]
    /\ (\A t \in Readers :
           /\ inflight[t].stage = "done"
           /\ inflight[t].req.op = "POST"
           /\ inflight[t].status = 200)
       => \A t \in Readers :
             \E k \in 1..Len(Coll(disk, inflight[t].req.book)) :
                Coll(disk, inflight[t].req.book)[k] = inflight[t].ann[1]

\* two creates on one book, the second accepted before the first was
\* answered: both answered 200 and both records are in the collection
C24_Witness ==
    /\ \A t \in Readers :
          /\ inflight[t].stage = "done"
          /\ inflight[t].req.op = "POST"
          /\ inflight[t].status = 200
          /\ \E k \in 1..Len(Coll(disk, inflight[t].req.book)) :
                Coll(disk, inflight[t].req.book)[k] = inflight[t].ann[1]
    /\ \E t \in Readers : inflight[t].overlapped
    /\ \E t \in Readers : \E o \in Readers \ {t} :
          /\ inflight[t].req.book = inflight[o].req.book
          /\ inflight[t].ann # inflight[o].ann

\* C29: whenever the chat endpoint answers 200, a following load of the
\* book shows the annotation with the message as the last element of its
\* chat_messages, also when the second load of the collection, the one of
\* update_annotation_in_disk, no longer contains the id.
C29_ChatPersisted ==
    (last.op = "CHAT" /\ last.status = 200) =>
       \E k \in 1..Len(Coll(disk, last.book)) :
          LET a == Coll(disk, last.book)[k] IN
          /\ a.id = last.id
          /\ a.content.chat_messages # None
          /\ Len(a.content.chat_messages[1]) >= 1
          /\ a.content.chat_messages[1][Len(a.content.chat_messages[1])]
                = last.msg[1]

\* C31: load, delete, update and chat-append never create a book directory
\* or an annotations file and leave a book that has no file as it is; a
\* directory or a file that newly exists was made by a create request to
\* that book.
C31_OnlyAppendCreates ==
    \A b \in Books :
       /\ last.op \in {"GET", "DELETE", "PUT", "CHAT"} =>
             /\ disk[b].dir = before[b].dir
             /\ (disk[b].kind = "absent") = (before[b].kind = "absent")
             /\ before[b].kind = "absent" => disk[b] = before[b]
       /\ (\/ disk[b].dir /\ ~before[b].dir
           \/ disk[b].kind # "absent" /\ before[b].kind = "absent")
          => last.op = "POST" /\ last.book = b /\ last.status = 200

\* an update addressed to a book without a directory was answered 404 and
\* left it without one, while the other book has a file with a record
C31_Witness ==
    /\ last.op = "PUT" /\ last.status = 404
    /\ before[last.book] = NoDir
    /\ disk[last.book] = NoDir
    /\ \E o \in Books \ {last.book} :
          disk[o].kind = "array" /\ Len(disk[o].items) >= 1

\* C32: migrate_global_progress writes a per-book progress file only for
\* a book of the global file that has none and leaves every existing
\* per-book file as it is; it renames the global file to .bak only when
\* every book of it has a per-book file; it changes nothing when there is
\* no global file, as after a completed run; and when it does not complete
\* the global file is kept.
C32_MigrationOnce ==
    page.op = "MIGRATE" =>
       LET old   == page.old.file
           items == IF old.kind = "json" THEN old.data ELSE <<>>
           named == {items[k][1] : k \in 1..Len(items)}
           renamed == old_progress # page.old IN
       /\ \A b \in Books :
             /\ page.before[b].kind # "absent" => progress[b] = page.before[b]
             /\ progress[b] # page.before[b] =>
                   /\ b \in named
                   /\ \/ progress[b].kind = "malformed"
                      \/ \E k \in 1..Len(items) :
                            /\ items[k][1] = b
                            /\ progress[b] = ProgressFile(items[k][2])
       /\ renamed =>
             /\ old.kind = "json"
             /\ old_progress = [file |-> NoProgress, bak |-> old]
             /\ \A b \in named : progress[b].kind # "absent"
       /\ old.kind = "absent" =>
             progress = page.before /\ old_progress = page.old /\ disk = page.dirs
       /\ ~renamed => old_progress.file = old

\* a migration that wrote the first book's file and failed at the second:
\* the global file is still there and nothing was renamed
C32_Witness ==
    /\ page.op = "MIGRATE"
    /\ page.old.file.kind = "json"
    /\ Len(page.old.file.data) = 2
    /\ old_progress = page.old
    /\ LET first  == page.old.file.data[1]
           second == page.old.file.data[2] IN
       /\ page.before[first[1]] = NoProgress
       /\ progress[first[1]] = ProgressFile(first[2])
       /\ page.before[second[1]] = NoProgress
       /\ progress[second[1]].kind # "json"

\* C33: for a book with n chapters read_chapter and get_chapter_content
\* answer 404 exactly when chapter_index < 0 or chapter_index >= n;
\* otherwise prev_idx is None iff chapter_index = 0 and else
\* chapter_index - 1, next_idx is None iff chapter_index = n - 1 and else
\* chapter_index + 1, so every prev or next index given is an index of a
\* chapter.
C33_ChapterBounds ==
    (page.op \in {"READ", "CONTENT"} /\ library[page.book].kind = "book") =>
       LET n == Len(library[page.book].book.spine)
           i == page.index IN
       /\ page.status \in {200, 404}
       /\ (page.status = 404) = (i < 0 \/ i >= n)
       /\ page.status = 200 =>
             /\ page.chapter_index = i
             /\ (page.prev_idx = None) = (i = 0)
             /\ i # 0 => page.prev_idx = Some(i - 1)
             /\ (page.next_idx = None) = (i = n - 1)
             /\ i # n - 1 => page.next_idx = Some(i + 1)
             /\ \A j \in {page.prev_idx, page.next_idx} :
                   j # None => (0 <= j[1] /\ j[1] < n)

\* a middle chapter, given with both neighbours
C33_Witness ==
    /\ page.op = "CONTENT" /\ page.status = 200
    /\ page.index = 1
    /\ page.total_chapters = 3
    /\ page.prev_idx = Some(0)
    /\ page.next_idx = Some(2)

\* C34: for an EPUB book with at least one chapter GET /read/{book} renders
\* a chapter whose index is in range whatever the progress file holds: a
\* stored chapter_index that is negative or at least the chapter count is
\* replaced by 0, a stored index in range is kept, and a missing or
\* unreadable progress file counts as chapter 0.
C34_ResumeFallback ==
    (/\ page.op = "OPEN"
     /\ library[page.book].kind = "book"
     /\ library[page.book].book.source_file = "book.epub"
     /\ Len(library[page.book].book.spine) >= 1) =>
       LET n    == Len(library[page.book].book.spine)
           file == progress[page.book] IN
       /\ page.status = 200
       /\ 0 <= page.chapter_index /\ page.chapter_index < n
       /\ file.kind # "json" => page.chapter_index = 0
       /\ file.kind = "json" =>
             IF "chapter_index" \in DOMAIN file.data
             THEN LET c == file.data["chapter_index"] IN
                  page.chapter_index = IF c < 0 \/ c >= n THEN 0 ELSE c
             ELSE page.chapter_index = 0

\* a book of two chapters opened with a stored chapter_index of 2: the first
\* chapter is rendered
C34_Witness ==
    /\ page.op = "OPEN" /\ page.status = 200
    /\ library[page.book].kind = "book"
    /\ library[page.book].book.source_file = "book.epub"
    /\ Len(library[page.book].book.spine) = 2
    /\ progress[page.book].kind = "json"
    /\ "chapter_index" \in DOMAIN progress[page.book].data
    /\ progress[page.book].data["chapter_index"] = 2
    /\ page.chapter_index = 0
    /\ page.next_idx = Some(1)

\* C35: load_book_cached answers a folder name that has an entry with the
\* memoized result, None included, whatever book.pkl holds by then, and
\* reads the disk only for a name without an entry; the cache never holds
\* more than 10 names, a new entry in a full cache takes the place of the
\* least recently used one, and cache_clear empties it.
C35_Memoization ==
    [][
       /\ Len(cache') <= maxsize
       /\ \A i, j \in 1..Len(cache') : i # j => cache'[i].key # cache'[j].key
       /\ page'.op = "CONTENT" =>
             LET f     == page'.book
                 K     == {k \in 1..Len(cache) : cache[k].key = f}
                 old   == {cache[k] : k \in 1..Len(cache)}
                 new   == {cache'[k] : k \in 1..Len(cache')}
                 fresh == IF library[f].kind = "book"
                          THEN Some(library[f].book) ELSE None
                 answered(value) ==
                    IF value = None
                    THEN page'.status = 404 /\ page'.detail = "Book not found"
                    ELSE /\ page'.status = 200
                         /\ page'.total_chapters = Len(value[1].spine) IN
             IF K # {}
             THEN \E k \in K :
                     /\ answered(cache[k].value)
                     /\ new = old
                     /\ Len(cache') = Len(cache)
                     /\ cache'[Len(cache')] = cache[k]
             ELSE /\ answered(fresh)
                  /\ Len(cache') >= 1
                  /\ cache'[Len(cache')] = [key |-> f, value |-> fresh]
                  /\ new = (IF Len(cache) < maxsize THEN old ELSE old \ {cache[1]})
                              \cup {[key |-> f, value |-> fresh]}
                  /\ Len(cache) = maxsize =>
                        \A k \in 1..(maxsize - 1) : cache'[k] = cache[k + 1]
       /\ page'.op = "LIBRARY" =>
             /\ Len(cache') = maxsize
             /\ \A k \in 1..maxsize :
                   cache'[k].key = FolderList[Len(FolderList) - maxsize + k]
       /\ page'.op = "IMPORT" => cache' = cache
       /\ page'.op = "CLEAR" => cache' = <<>>
    ]_vars

\* a folder whose lookup gave None while it had no book.pkl is asked for
\* again after the import wrote one: the answer is still 404, from a cache
\* that is full
C35_Witness ==
    /\ page.op = "CONTENT" /\ page.status = 404
    /\ library[page.book].kind = "book"
    /\ Len(cache) = maxsize
    /\ cache[Len(cache)] = [key |-> page.book, value |-> None]

====
